---- MODULE Spec2Model ----
(***************************************************************************)
(* LambdaCraft (lambda.h): the lambda macro and the five combinators       *)
(* fold, map, fold_s, foreach_s and map_s, run by a caller (the example    *)
(* programs' main) on arrays and on singly linked chains.                  *)
(*                                                                         *)
(* Array indices are the code's 0-based indices; the element of index i is *)
(* at position i+1 of the sequence that models the array.                  *)
(***************************************************************************)
EXTENDS Integers, Sequences, FiniteSets, TLC

\* ---------------------------------------------------------------- bounds
MaxLen == 3
MaxVal == 2

\* NULL, the Sentinel of a chain.
NULL == 0

\* The activation of main, alive for the whole run.
MainFrame == 0

Values == 1..MaxVal
NestedValues == {0, 1}
Nodes == 1..(2 * MaxLen)

Arrays == UNION {[1..n -> Values] : n \in 0..MaxLen}

ArrayOps == {"fold", "map"}
ChainOps == {"fold_s", "foreach_s", "map_s"}
Combinators == ArrayOps \cup ChainOps

Reducers == {"add", "sub", "shift"}
Transforms == {"inc", "square", "id"}
ForeachBodies == {"read_then_free", "free_then_read"}
MapSBodies == {"wire", "nowire"}

VARIABLES
  op,          \* the operation main runs
  pc,          \* main's position
  body,        \* the body given to the combinator (a caller's input)
  nestedValue, \* a local of main that the bodies capture
  mem,         \* the arrays: mem.src (in_array's storage) and mem.dst
  out,         \* the storage out_array designates: "src" when it aliases in_array
  size,        \* the size argument
  i,           \* the loop index of fold and map
  acc,         \* the accumulator of fold and fold_s
  init_acc,    \* the init_acc argument
  heap,        \* the nodes: heap[p] = [data, next, st]
  first_e,     \* the first_e argument (head)
  value,       \* the loop variable of fold_s and foreach_s
  stack,       \* the activations of aux (map_s) and of maker, innermost last
  nextId,      \* the next activation identifier
  depth,       \* the largest number of activations on the stack so far
  result,      \* the value of the combinator's statement expression
  stored,      \* the callables held in a variable
  outcome,     \* what the invocation of a stored callable did
  calls,       \* every invocation of a callable, in order
  writes,      \* every write to an array slot, in order
  freed,       \* every free(), in order
  uaf,         \* a released node was read or released again
  derefs,      \* every read of a node's fields, in order: who read which node
  mem0,        \* the arrays before the combinator ran
  heap0,       \* the nodes before the combinator ran
  prev         \* the combinator main ran before this one, its head and value

vars == <<op, pc, body, nestedValue, mem, out, size, i, acc, init_acc, heap,
          first_e, value, stack, nextId, depth, result, stored, outcome, calls,
          writes, freed, uaf, derefs, mem0, heap0, prev>>

arrayVars == <<mem, out, size, i, writes, mem0>>
chainVars == <<heap, first_e, value, freed, uaf, derefs, heap0>>
frameVars == <<stack, nextId, depth, stored, outcome>>
inputVars == <<op, body, nestedValue, init_acc, prev>>

\* ------------------------------------------------------------ the bodies

\* The reducers: { return acc + value + nestedValue; } and two whose result
\* depends on the order of the elements.
ApplyReducer(b, a, v, nv) ==
  CASE b = "add"   -> a + v + nv
    [] b = "sub"   -> a - v
    [] b = "shift" -> 2 * a + v

\* The transforms: { return value + nestedValue; }, { return value * value; }
\* and the identity.
ApplyTransform(b, v, nv) ==
  CASE b = "inc"    -> v + nv
    [] b = "square" -> v * v
    [] b = "id"     -> v

\* ------------------------------------------------- scopes and callables

\* The activations on the call stack.
LiveFrames == {MainFrame} \cup {stack[k].id : k \in 1..Len(stack)}

\* The variables a combinator's statement expression and its for loop
\* declare in main, by main's position.
BlockVars(p) ==
  CASE p = "fold_loop"      -> {"acc", "i"}
    [] p = "map_loop"       -> {"i"}
    [] p = "fold_s_body"    -> {"acc", "value"}
    [] p = "fold_s_next"    -> {"acc", "value"}
    [] p = "foreach_s_loop" -> {"value"}
    [] OTHER                -> {}

\* The variables that are alive, each with its activation.
\* The parameters and locals of an activation of aux (value, next) and of
\* a function that makes a callable (x).
FrameVars(fn) == IF fn = "aux" THEN {"value", "next"} ELSE {"x"}

\* The variables that are alive, each with its activation.
LiveVars ==
  {<<MainFrame, v>> : v \in {"nestedValue"} \cup BlockVars(pc)}
    \cup UNION {{<<stack[k].id, v>> : v \in FrameVars(stack[k].fn)} :
                  k \in 1..Len(stack)}

\* A callable obtained from a helper function that has returned.
lambda_returned(frame, caps) == [env |-> -1, caps |-> caps]

\* The lambda macro: ({ret _f args body; _f;}) declares a nested function of
\* the activation that evaluates it and yields its address. The block of
\* the statement expression declares nothing but the function, so what the
\* callable needs when it is called is that activation (frame) and the
\* variables the body refers to (caps).
lambda(frame, caps) == [env |-> frame, caps |-> caps]

\* A callable can be invoked safely while its activation and the variables
\* it refers to exist.
Alive(c) == c.env \in LiveFrames /\ c.caps \subseteq LiveVars

\* One read of the fields of node p of h, as recorded in derefs.
Deref(by, h, p) == [by |-> by, node |-> p, st |-> h[p].st]

\* One invocation, as recorded in calls.
Call(fn, elem, accIn, succ, ret, c, snap) ==
  [fn |-> fn, elem |-> elem, acc |-> accIn, succ |-> succ, ret |-> ret,
   env |-> c.env, alive |-> Alive(c), snap |-> snap]

\* ------------------------------------------------------------------ Init

NoHeap == [p \in Nodes |-> [data |-> 0, next |-> NULL, st |-> "unused"]]

InitCommon ==
  /\ nestedValue \in NestedValues
  /\ stack = <<>>
  /\ nextId = 1
  /\ depth = 0
  /\ result = NULL
  /\ stored = {}
  /\ outcome = "none"
  /\ calls = <<>>
  /\ writes = <<>>
  /\ freed = <<>>
  /\ uaf = FALSE
  /\ derefs = <<>>
  /\ i = 0
  /\ pc = "start"
  /\ mem0 = mem
  /\ heap0 = heap
  /\ prev = [op |-> "none", first_e |-> NULL, result |-> NULL]

InitArray ==
  /\ op \in ArrayOps
  /\ \E a \in Arrays :
       /\ size \in 0..Len(a)
       /\ \/ op = "fold" /\ mem = [src |-> a, dst |-> <<>>] /\ out = "src"
          \/ op = "map" /\ mem = [src |-> a, dst |-> [k \in 1..Len(a) |-> 0]]
                        /\ out \in {"src", "dst"}
  /\ \/ op = "fold" /\ body \in Reducers /\ init_acc \in 0..1
     \/ op = "map" /\ body \in Transforms /\ init_acc = 0
  /\ acc = 0
  /\ heap = NoHeap
  /\ first_e = NULL
  /\ value = NULL

\* The chain of the elements d[1], ..., d[n]: in allocation order (the head
\* allocated first, as the list example builds it) or in reverse allocation
\* order (each new node put before the others, as fold builds it from argv).
ChainHeap(d, layout) ==
  LET n == Len(d)
      at(k) == IF layout = "asc" THEN k ELSE n + 1 - k
      pos(p) == IF layout = "asc" THEN p ELSE n + 1 - p
  IN [p \in Nodes |->
        IF p <= n
        THEN [data |-> d[pos(p)],
              next |-> IF pos(p) = n THEN NULL ELSE at(pos(p) + 1),
              st |-> "live"]
        ELSE [data |-> 0, next |-> NULL, st |-> "unused"]]

ChainHead(d, layout) ==
  IF Len(d) = 0 THEN NULL ELSE IF layout = "asc" THEN 1 ELSE Len(d)

\* What the blocks that are not allocated hold is indeterminate: here zeroes,
\* or a pointer j left by an earlier use of the block.
WithJunk(h, j) ==
  [p \in Nodes |-> IF h[p].st = "live" THEN h[p] ELSE [h[p] EXCEPT !.next = j]]

InitChain ==
  /\ op \in ChainOps
  /\ \E d \in Arrays, layout \in {"asc", "desc"} :
       /\ first_e = ChainHead(d, layout)
       /\ \E j \in (IF op = "map_s" THEN {NULL, ChainHead(d, layout)} ELSE {NULL}) :
            heap = WithJunk(ChainHeap(d, layout), j)
  /\ \/ op = "fold_s" /\ body \in Reducers /\ init_acc \in 0..1
     \/ op = "foreach_s" /\ body \in ForeachBodies /\ init_acc = 0
     \/ op = "map_s" /\ body \in MapSBodies /\ init_acc = 0
  /\ acc = 0
  /\ value = NULL
  /\ mem = [src |-> <<>>, dst |-> <<>>]
  /\ out = "src"
  /\ size = 0

\* A function of main's makes a callable and main keeps it.
InitEscape ==
  /\ op = "escape"
  /\ body = "none"
  /\ init_acc = 0
  /\ acc = 0
  /\ heap = NoHeap
  /\ first_e = NULL
  /\ value = NULL
  /\ mem = [src |-> <<>>, dst |-> <<>>]
  /\ out = "src"
  /\ size = 0

Init == (InitArray \/ InitChain \/ InitEscape) /\ InitCommon

\* ------------------------------------------------------------------ fold

fold_cond_skip_last(idx, n) == idx < n - 1

\* for(int i=0;i<size;i++)
fold_cond(idx, n) == idx < n

\* acc_type acc = init_acc;
fold_enter ==
  /\ op = "fold" /\ pc = "start"
  /\ acc' = init_acc
  /\ i' = 0
  /\ pc' = "fold_loop"
  /\ UNCHANGED <<inputVars, mem, out, size, writes, mem0, chainVars,
                 frameVars, result, calls>>

\* acc=lambda(acc_type,(element_type value), body)(in_array[i]);
fold_step ==
  /\ op = "fold" /\ pc = "fold_loop"
  /\ fold_cond(i, size)
  /\ LET c == lambda(MainFrame, {<<MainFrame, "acc">>, <<MainFrame, "nestedValue">>})
         r == ApplyReducer(body, acc, mem.src[i + 1], nestedValue)
     IN /\ acc' = r
        /\ calls' = Append(calls, Call("body", i, acc, NULL, r, c, <<>>))
  /\ i' = i + 1
  /\ UNCHANGED <<inputVars, pc, mem, out, size, writes, mem0, chainVars,
                 frameVars, result>>

\* ; acc; })
fold_exit ==
  /\ op = "fold" /\ pc = "fold_loop"
  /\ ~fold_cond(i, size)
  /\ result' = acc
  /\ pc' = "done"
  /\ UNCHANGED <<inputVars, acc, arrayVars, chainVars, frameVars, calls>>

\* ------------------------------------------------------------------- map

map_src_prev(idx) == IF idx > 0 THEN idx - 1 ELSE idx

\* in_array[i]: the slot map reads for index i.
map_src(idx) == idx

map_slot_shifted(idx) == idx + 1

\* out_array[i]: the slot map writes for index i.
map_slot(idx) == idx

map_enter ==
  /\ op = "map" /\ pc = "start"
  /\ i' = 0
  /\ pc' = "map_loop"
  /\ UNCHANGED <<inputVars, acc, mem, out, size, writes, mem0, chainVars,
                 frameVars, result, calls>>

\* out_array[i]=lambda(type,(type value), body)(in_array[i]);
map_step ==
  /\ op = "map" /\ pc = "map_loop"
  /\ i < size
  /\ LET c == lambda(MainFrame, {<<MainFrame, "nestedValue">>})
         r == ApplyTransform(body, mem.src[map_src(i) + 1], nestedValue)
         slot == map_slot(i)
     IN /\ mem' = [mem EXCEPT ![out][slot + 1] = r]
        /\ writes' = Append(writes, slot)
        /\ calls' = Append(calls, Call("body", i, 0, NULL, r, c, mem.src))
  /\ i' = i + 1
  /\ UNCHANGED <<inputVars, pc, acc, out, size, mem0, chainVars, frameVars,
                 result>>

map_exit ==
  /\ op = "map" /\ pc = "map_loop"
  /\ ~(i < size)
  /\ pc' = "done"
  /\ UNCHANGED <<inputVars, acc, arrayVars, chainVars, frameVars, result,
                 calls>>

\* ---------------------------------------------------------------- fold_s

fold_s_cond_stop_early(h, v) == IF v = NULL THEN FALSE ELSE h[v].next # NULL

\* value!=NULL
fold_s_cond(h, v) == v # NULL

SuccessorStuck(h, v) == v

\* {return value->next;}
Successor(h, v) == h[v].next

\* The logs of a scan hold at most StepCap entries: a scan of a chain without
\* a cycle never gets there, a scan of a chain with one is followed up to it.
StepCap == 2 * MaxLen + 2

\* acc_type acc = init_acc; for(element_type value=first_e; ...
fold_s_enter ==
  /\ op = "fold_s" /\ pc = "start"
  /\ acc' = init_acc
  /\ value' = first_e
  /\ pc' = "fold_s_body"
  /\ UNCHANGED <<inputVars, arrayVars, heap, first_e, freed, uaf, derefs,
                 heap0, frameVars, result, calls>>

\* value!=NULL; acc=lambda(acc_type,(), body)();
fold_s_body ==
  /\ op = "fold_s" /\ pc = "fold_s_body"
  /\ fold_s_cond(heap, value)
  /\ Len(calls) < StepCap
  /\ LET c == lambda(MainFrame, {<<MainFrame, "acc">>, <<MainFrame, "value">>,
                                 <<MainFrame, "nestedValue">>})
         r == ApplyReducer(body, acc, heap[value].data, nestedValue)
     IN /\ acc' = r
        /\ calls' = Append(calls, Call("body", value, acc, NULL, r, c, <<>>))
  /\ derefs' = Append(derefs, Deref("body", heap, value))
  /\ pc' = "fold_s_next"
  /\ UNCHANGED <<inputVars, arrayVars, heap, first_e, value, freed, uaf, heap0,
                 frameVars, result>>

\* value=lambda(element_type, (), next)()
fold_s_next ==
  /\ op = "fold_s" /\ pc = "fold_s_next"
  /\ LET c == lambda(MainFrame, {<<MainFrame, "value">>})
         r == Successor(heap, value)
     IN /\ value' = r
        /\ calls' = Append(calls, Call("next", value, acc, NULL, r, c, <<>>))
  /\ derefs' = Append(derefs, Deref("next", heap, value))
  /\ pc' = "fold_s_body"
  /\ UNCHANGED <<inputVars, acc, arrayVars, heap, first_e, freed, uaf, heap0,
                 frameVars, result>>

\* value!=NULL fails; ; acc; })
fold_s_exit ==
  /\ op = "fold_s" /\ pc = "fold_s_body"
  /\ ~fold_s_cond(heap, value)
  /\ result' = acc
  /\ pc' = "done"
  /\ UNCHANGED <<inputVars, acc, arrayVars, chainVars, frameVars, calls>>

\* ------------------------------------------------------------- foreach_s

\* free(p): releasing a node that is not allocated is a double free.
Free(h, p) == [h EXCEPT ![p].st = "freed"]

ReleaseFirst(h, v) ==
  [heap |-> Free(h, v), ret |-> h[v].next, bad |-> TRUE]

\* { linked_s *r=value->next; free(value); return r; }
ReadThenRelease(h, v) ==
  [heap |-> Free(h, v), ret |-> h[v].next, bad |-> h[v].st # "live"]

ReleaseThenReadSafely(h, v) ==
  [heap |-> Free(h, v), ret |-> h[v].next, st |-> h[v].st]

\* The body with its statements in the other order:
\* { free(value); linked_s *r=value->next; return r; }
\* The read finds the node as free() left it.
ReleaseThenRead(h, v) ==
  LET h1 == Free(h, v)
  IN [heap |-> h1, ret |-> h1[v].next, st |-> h1[v].st]

foreach_s_reads_element(h, v) == IF v = NULL THEN <<>> ELSE <<Deref("loop", h, v)>>

\* value!=NULL: the fields of the nodes that the loop's own test and
\* assignment read: none, they use the pointer only.
foreach_s_reads(h, v) == <<>>

\* for(element_type value=first_e; ...
foreach_s_enter ==
  /\ op = "foreach_s" /\ pc = "start"
  /\ value' = first_e
  /\ pc' = "foreach_s_loop"
  /\ UNCHANGED <<inputVars, acc, arrayVars, heap, first_e, freed, uaf, derefs,
                 heap0, frameVars, result, calls>>

\* value!=NULL; value=lambda(element_type, (), body)(), with the body that
\* reads the successor and then releases the element.
foreach_s_step ==
  /\ op = "foreach_s" /\ pc = "foreach_s_loop" /\ body = "read_then_free"
  /\ value # NULL
  /\ LET c == lambda(MainFrame, {<<MainFrame, "value">>})
         b == ReadThenRelease(heap, value)
     IN /\ heap' = b.heap
        /\ value' = b.ret
        /\ uaf' = (uaf \/ b.bad)
        /\ freed' = Append(freed, value)
        /\ derefs' = Append(derefs \o foreach_s_reads(heap, value),
                            Deref("body", heap, value))
        /\ calls' = Append(calls, Call("body", value, 0, NULL, b.ret, c, <<>>))
  /\ UNCHANGED <<inputVars, pc, acc, arrayVars, first_e, heap0, frameVars,
                 result>>

\* The same step with the body that releases the element and then reads its
\* successor. A read of a released node is undefined: it either finds the
\* old successor still there, and the loop goes on with nothing reported,
\* or it does not and the run ends.
foreach_s_step_uaf ==
  /\ op = "foreach_s" /\ pc = "foreach_s_loop" /\ body = "free_then_read"
  /\ value # NULL
  /\ LET c == lambda(MainFrame, {<<MainFrame, "value">>})
         b == ReleaseThenRead(heap, value)
     IN /\ heap' = b.heap
        /\ uaf' = (uaf \/ b.st # "live")
        /\ freed' = Append(freed, value)
        /\ derefs' = Append(derefs \o foreach_s_reads(heap, value),
                            Deref("body", b.heap, value))
        /\ calls' = Append(calls, Call("body", value, 0, NULL, b.ret, c, <<>>))
        /\ IF b.st = "live"
           THEN value' = b.ret /\ pc' = pc
           ELSE \/ value' = b.ret /\ pc' = pc
                \/ value' = value /\ pc' = "crashed"
  /\ UNCHANGED <<inputVars, acc, arrayVars, first_e, heap0, frameVars, result>>

\* value!=NULL fails; ; })
foreach_s_exit ==
  /\ op = "foreach_s" /\ pc = "foreach_s_loop"
  /\ value = NULL
  /\ derefs' = derefs \o foreach_s_reads(heap, value)
  /\ pc' = "done"
  /\ UNCHANGED <<inputVars, acc, arrayVars, heap, first_e, value, freed, uaf,
                 heap0, frameVars, result, calls>>

\* ----------------------------------------------------------------- map_s

Frame(id, fn, v) == [id |-> id, fn |-> fn, value |-> v, next |-> NULL, pc |-> "entry"]

Top == stack[Len(stack)]

Pop == SubSeq(stack, 1, Len(stack) - 1)

\* return r: the activation ends; the caller's next = aux(next) stores r and
\* goes on to the body, and the outermost activation's r is the value of
\* the statement expression.
ReturnDropped(r) ==
  IF Len(stack) = 1
  THEN /\ stack' = <<>>
       /\ result' = r
       /\ pc' = "done"
  ELSE /\ stack' = [Pop EXCEPT ![Len(stack) - 1].pc = "body"]
       /\ UNCHANGED <<result, pc>>

Return(r) ==
  IF Len(stack) = 1
  THEN /\ stack' = <<>>
       /\ result' = r
       /\ pc' = "done"
  ELSE /\ stack' = [Pop EXCEPT ![Len(stack) - 1].next = r,
                               ![Len(stack) - 1].pc = "body"]
       /\ UNCHANGED <<result, pc>>

\* malloc(sizeof(Node)): a block that is not allocated, the lowest or the
\* highest of them.
Malloc(h) ==
  LET F == {p \in Nodes : h[p].st # "live"}
  IN {p \in F : (\A q \in F : p <= q) \/ (\A q \in F : p >= q)}

TransformInPlace(b, h, v, n, r) ==
  [h EXCEPT ![v] = [data |-> h[v].data * h[v].data,
                    next |-> IF b = "wire" THEN n ELSE NULL,
                    st |-> "live"]]

\* The body of the list example, storing into the new node r:
\* r_value->data = value->data * value->data; r_value->next = next;
\* and the same body without the second assignment, which leaves in
\* r_value->next what the block held.
Transform(b, h, v, n, r) ==
  [h EXCEPT ![r] = [data |-> h[v].data * h[v].data,
                    next |-> IF b = "wire" THEN n ELSE h[r].next,
                    st |-> "live"]]

aux_links(h, r, n) == [h EXCEPT ![r].next = n]

\* What aux itself stores into the node r that the body returned: nothing,
\* return lambda(type, (), body)() hands the node on as it is.
aux_link(h, r, n) == h

aux_end_early(h, v) == IF v = NULL THEN TRUE ELSE h[v].next = NULL

\* if(!value)
aux_end(h, v) == v = NULL

Max(a, b) == IF a >= b THEN a ELSE b

\* ; aux(first_e) ;})
map_s_enter ==
  /\ op = "map_s" /\ pc = "start"
  /\ stack' = <<Frame(nextId, "aux", first_e)>>
  /\ nextId' = nextId + 1
  /\ depth' = Max(depth, Len(stack'))
  /\ pc' = "map_s_run"
  /\ UNCHANGED <<inputVars, acc, arrayVars, chainVars, stored, outcome,
                 result, calls>>

\* if(!value) return value;
aux_null ==
  /\ op = "map_s" /\ pc = "map_s_run"
  /\ Top.pc = "entry" /\ aux_end(heap, Top.value)
  /\ Return(Top.value)
  /\ UNCHANGED <<inputVars, acc, arrayVars, chainVars, nextId, depth, stored,
                 outcome, calls>>

\* type next = lambda(type, (type next), findnext)(value); next = aux(next);
\* up to the entry of the callee.
aux_descend ==
  /\ op = "map_s" /\ pc = "map_s_run"
  /\ Top.pc = "entry" /\ ~aux_end(heap, Top.value)
  /\ LET c == lambda(Top.id, {<<Top.id, "value">>})
         n == heap[Top.value].next
     IN /\ calls' = Append(calls, Call("next", Top.value, 0, NULL, n, c, <<>>))
        /\ stack' = Append([stack EXCEPT ![Len(stack)].next = n,
                                         ![Len(stack)].pc = "wait"],
                           Frame(nextId, "aux", n))
  /\ nextId' = nextId + 1
  /\ depth' = Max(depth, Len(stack'))
  /\ derefs' = Append(derefs, Deref("next", heap, Top.value))
  /\ UNCHANGED <<inputVars, pc, acc, arrayVars, heap, first_e, value, freed,
                 uaf, heap0, stored, outcome, result>>

\* return lambda(type, (), body)();
aux_body ==
  /\ op = "map_s" /\ pc = "map_s_run"
  /\ Top.pc = "body"
  /\ \E r \in Malloc(heap) :
       LET c == lambda(Top.id, {<<Top.id, "value">>, <<Top.id, "next">>})
       IN /\ heap' = aux_link(Transform(body, heap, Top.value, Top.next, r),
                              r, Top.next)
          /\ calls' = Append(calls, Call("body", Top.value, 0, Top.next, r, c, <<>>))
          /\ Return(r)
  /\ derefs' = Append(derefs, Deref("body", heap, Top.value))
  /\ UNCHANGED <<inputVars, acc, arrayVars, first_e, value, freed, uaf, heap0,
                 nextId, depth, stored, outcome>>

\* fold_s on the list a combinator returned: main's next combinator call,
\* as the list example's main folds the list that its fold built.
then_fold_s ==
  /\ op = "map_s" /\ pc = "done"
  /\ prev' = [op |-> op, first_e |-> first_e, result |-> result]
  /\ op' = "fold_s"
  /\ body' \in Reducers
  /\ init_acc' \in 0..1
  /\ first_e' = result
  /\ heap0' = heap
  /\ calls' = <<>>
  /\ derefs' = <<>>
  /\ result' = NULL
  /\ pc' = "start"
  /\ UNCHANGED <<nestedValue, acc, arrayVars, heap, value, freed, uaf,
                 frameVars>>

\* ------------------------------------------------- a callable that escapes

InvokeChecked(c) == IF Alive(c) THEN {"ok"} ELSE {"lifecycle_error"}

\* Calling through the address the lambda macro yielded. After the function
\* the callable is nested in has returned the behaviour is unpredictable:
\* the call may still work, compute with overwritten variables, or crash.
InvokeOutcomes(c) == IF Alive(c) THEN {"ok"} ELSE {"ok", "garbage", "crash"}

\* main calls a function that is going to make a callable.
maker_enter ==
  /\ op = "escape" /\ pc = "start"
  /\ stack' = <<Frame(nextId, "maker", NULL)>>
  /\ nextId' = nextId + 1
  /\ depth' = Max(depth, Len(stack'))
  /\ pc' = "in_maker"
  /\ UNCHANGED <<inputVars, acc, arrayVars, chainVars, stored, outcome,
                 result, calls>>

\* The function makes a callable that refers to its local x and stores the
\* callable's address where main finds it.
maker_store ==
  /\ op = "escape" /\ pc = "in_maker"
  /\ stored' = {lambda(Top.id, {<<Top.id, "x">>})}
  /\ pc' = "made"
  /\ UNCHANGED <<inputVars, acc, arrayVars, chainVars, stack, nextId, depth,
                 outcome, result, calls>>

\* The function returns.
maker_return ==
  /\ op = "escape" /\ pc \in {"made", "called_inside"}
  /\ stack' = Pop
  /\ pc' = "returned"
  /\ UNCHANGED <<inputVars, acc, arrayVars, chainVars, nextId, depth, stored,
                 outcome, result, calls>>

\* The stored callable is invoked: by the function that made it, or by main
\* after that function returned.
invoke_stored ==
  /\ op = "escape" /\ pc \in {"made", "returned"}
  /\ \E c \in stored : \E o \in InvokeOutcomes(c) :
       /\ outcome' = o
       /\ calls' = Append(calls, Call("stored", NULL, 0, NULL, NULL, c, <<>>))
       /\ pc' = IF pc = "made" THEN "called_inside"
                ELSE IF o = "crash" THEN "crashed" ELSE "done"
  /\ UNCHANGED <<inputVars, acc, arrayVars, chainVars, stack, nextId, depth,
                 stored, result>>

Next ==
  \/ fold_enter \/ fold_step \/ fold_exit
  \/ map_enter \/ map_step \/ map_exit
  \/ fold_s_enter \/ fold_s_body \/ fold_s_next \/ fold_s_exit
  \/ foreach_s_enter \/ foreach_s_step \/ foreach_s_step_uaf \/ foreach_s_exit
  \/ map_s_enter \/ aux_null \/ aux_descend \/ aux_body
  \/ then_fold_s
  \/ maker_enter \/ maker_store \/ maker_return \/ invoke_stored

Spec == Init /\ [][Next]_vars

\* --------------------------------------------- fold_s on any chain at all

\* The chain of d whose last node has the node of d[j] as its successor.
CyclicHeap(d, layout, j) ==
  LET h == ChainHeap(d, layout)
      node(k) == IF layout = "asc" THEN k ELSE Len(d) + 1 - k
  IN [h EXCEPT ![node(Len(d))].next = node(j)]

\* fold_s is handed a head and a successor expression: nothing in it says
\* that the chain ends.
InitAnyChain ==
  /\ op = "fold_s"
  /\ body \in Reducers
  /\ init_acc \in 0..1
  /\ \E d \in Arrays, layout \in {"asc", "desc"} :
       /\ first_e = ChainHead(d, layout)
       /\ \/ heap = ChainHeap(d, layout)
          \/ \E j \in 1..Len(d) : heap = CyclicHeap(d, layout, j)
  /\ acc = 0
  /\ value = NULL
  /\ mem = [src |-> <<>>, dst |-> <<>>]
  /\ out = "src"
  /\ size = 0

FoldSInit == InitAnyChain /\ InitCommon

FoldSNext == fold_s_enter \/ fold_s_body \/ fold_s_next \/ fold_s_exit

\* The program is one thread that runs: a step that can be taken is taken.
FoldSSpec == FoldSInit /\ [][FoldSNext]_vars /\ WF_vars(FoldSNext)

\* ---------------------------------------------------------- references

\* The left fold of reducer b over the sequence s, from a.
RECURSIVE FoldL(_, _, _, _)
FoldL(b, a, s, nv) ==
  IF s = <<>> THEN a
  ELSE FoldL(b, ApplyReducer(b, a, Head(s), nv), Tail(s), nv)

Prefix(s, n) == SubSeq(s, 1, n)

\* The nodes of the chain of h from p, in order (at most fuel of them).
RECURSIVE ChainFrom(_, _, _)
ChainFrom(h, p, fuel) ==
  IF p = NULL \/ fuel = 0 THEN <<>>
  ELSE <<p>> \o ChainFrom(h, h[p].next, fuel - 1)

ChainNodes(h, p) == ChainFrom(h, p, Cardinality(Nodes) + 1)

ChainData(h, p) ==
  LET e == ChainNodes(h, p) IN [k \in 1..Len(e) |-> h[e[k]].data]

Range(s) == {s[k] : k \in 1..Len(s)}

\* The input chain of the combinator that runs.
Elems == ChainNodes(heap0, first_e)

\* ------------------------------------------------------------- claims

\* C1: fold invokes the reducer once per index 0..size-1, in increasing
\* order, each time with the accumulator the previous invocation returned
\* (init_acc for index 0), and its value is the left fold of the array; over
\* an empty range the reducer is not invoked and the value is init_acc.
C1_FoldIsLeftFold ==
  op = "fold" =>
    /\ Len(calls) = i /\ i <= size
    /\ \A k \in 1..Len(calls) :
         /\ calls[k].fn = "body"
         /\ calls[k].elem = k - 1
         /\ calls[k].acc = FoldL(body, init_acc, Prefix(mem0.src, k - 1), nestedValue)
         /\ calls[k].ret = FoldL(body, init_acc, Prefix(mem0.src, k), nestedValue)
    /\ pc = "done" =>
         /\ Len(calls) = size
         /\ result = FoldL(body, init_acc, Prefix(mem0.src, size), nestedValue)
         /\ size = 0 => result = init_acc

C1_Witness ==
  /\ op = "fold" /\ pc = "done" /\ body = "sub" /\ size >= 2
  /\ Len(calls) = size
  /\ result # init_acc

\* C2: map with a destination distinct from the source writes the slots
\* 0..size-1 of the destination once each, in increasing order, slot i
\* with the transform of source slot i; the source and every other slot of
\* the destination keep their values.
C2_MapWritesEachSlotOnce ==
  (op = "map" /\ out = "dst") =>
    /\ i <= size
    /\ writes = [k \in 1..i |-> k - 1]
    /\ Len(calls) = i
    /\ \A k \in 1..Len(mem.dst) :
         mem.dst[k] = IF k <= i
                      THEN ApplyTransform(body, mem0.src[k], nestedValue)
                      ELSE mem0.dst[k]
    /\ mem.src = mem0.src
    /\ pc = "done" => i = size

C2_Witness ==
  /\ op = "map" /\ out = "dst" /\ pc = "done" /\ body = "square"
  /\ size >= 2 /\ size < Len(mem.dst)
  /\ mem.src[1] # mem.src[2]
  /\ Len(writes) = size

\* C3: map with the destination aliasing the source: when the transform of
\* index i is invoked the slots below i hold their transformed values and
\* the slots from i on their original values, so slot i ends as the
\* transform of its original value; the identity leaves the array as it was.
C3_MapInPlace ==
  (op = "map" /\ out = "src") =>
    /\ \A k \in 1..Len(calls) :
         /\ calls[k].elem = k - 1
         /\ \A j \in 1..Len(mem0.src) :
              calls[k].snap[j] = IF j < k
                                 THEN ApplyTransform(body, mem0.src[j], nestedValue)
                                 ELSE mem0.src[j]
         /\ calls[k].ret = ApplyTransform(body, mem0.src[k], nestedValue)
    /\ \A j \in 1..Len(mem.src) :
         mem.src[j] = IF j <= i
                      THEN ApplyTransform(body, mem0.src[j], nestedValue)
                      ELSE mem0.src[j]
    /\ (pc = "done" /\ body = "id") => mem.src = mem0.src

C3_Witness ==
  /\ op = "map" /\ out = "src" /\ pc = "done" /\ body = "square"
  /\ size >= 2
  /\ mem.src[2] # mem0.src[2]
  /\ mem0.src[1] # mem0.src[2]

\* C4: fold_s visits the elements of the chain once each from the head on;
\* for each element the reducer runs on (accumulator, element) and then the
\* successor callable on the same element, so each runs once per element;
\* the value is the left fold of the chain, and init_acc with no callable
\* invoked when the head is NULL.
C4_FoldSVisitsEachOnce ==
  op = "fold_s" =>
    /\ Len(calls) <= 2 * Len(Elems)
    /\ \A k \in 1..Len(calls) :
         LET e == (k + 1) \div 2 IN
         /\ calls[k].elem = Elems[e]
         /\ IF k % 2 = 1
            THEN /\ calls[k].fn = "body"
                 /\ calls[k].acc = FoldL(body, init_acc,
                                          Prefix(ChainData(heap0, first_e), e - 1),
                                          nestedValue)
                 /\ calls[k].ret = FoldL(body, init_acc,
                                          Prefix(ChainData(heap0, first_e), e),
                                          nestedValue)
            ELSE /\ calls[k].fn = "next"
                 /\ calls[k].ret = heap0[Elems[e]].next
    /\ pc = "done" =>
         /\ Len(calls) = 2 * Len(Elems)
         /\ result = FoldL(body, init_acc, ChainData(heap0, first_e), nestedValue)
         /\ first_e = NULL => (calls = <<>> /\ result = init_acc)

C4_Witness ==
  /\ op = "fold_s" /\ prev.op = "none" /\ pc = "done" /\ body = "shift"
  /\ Len(Elems) = 3
  /\ Len(calls) = 6
  /\ heap0[Elems[1]].data # heap0[Elems[3]].data

\* C5: map_s with the transform that allocates a node and stores the
\* successor it is given returns the head of a chain of new nodes, as long
\* as the input chain, whose k-th node holds the transform of the k-th
\* input element; for a NULL head it returns NULL and invokes no callable,
\* and fold_s on that value returns init_acc.
C5_MapSBuildsTransformedChain ==
  /\ (op = "map_s" /\ body = "wire" /\ pc = "done") =>
       LET new == ChainNodes(heap, result) IN
       /\ Len(new) = Len(Elems)
       /\ \A k \in 1..Len(new) :
            /\ heap[new[k]].data = heap0[Elems[k]].data * heap0[Elems[k]].data
            /\ heap0[new[k]].st # "live"
       /\ first_e = NULL => (result = NULL /\ calls = <<>>)
  /\ (op = "fold_s" /\ prev.op = "map_s" /\ prev.first_e = NULL) =>
       /\ first_e = NULL
       /\ calls = <<>>
       /\ pc = "done" => result = init_acc

C5_Witness ==
  /\ op = "map_s" /\ body = "wire" /\ pc = "done"
  /\ Len(Elems) = 3
  /\ ChainData(heap, result) = <<1, 4, 1>>

C5_WitnessEmpty ==
  /\ op = "fold_s" /\ prev.op = "map_s" /\ prev.first_e = NULL
  /\ pc = "done" /\ init_acc = 1 /\ result = 1

\* C6: map_s writes to no node of the input chain: while it runs and after
\* it returned every input node has the data and the successor it had, the
\* chain from the head is the same, and the nodes the transform returned are
\* none of the input nodes (nor is any node of the chain that the wiring
\* transform builds).
C6_MapSNonDestructive ==
  op = "map_s" =>
    /\ \A p \in Nodes : heap0[p].st = "live" => heap[p] = heap0[p]
    /\ ChainNodes(heap, first_e) = Elems
    /\ \A k \in 1..Len(calls) :
         calls[k].fn = "body" => calls[k].ret \notin Range(Elems)
    /\ (pc = "done" /\ body = "wire") =>
         Range(ChainNodes(heap, result)) \cap Range(Elems) = {}

C6_Witness ==
  /\ op = "map_s" /\ pc = "done" /\ body = "wire"
  /\ Len(Elems) = 2
  /\ Len(ChainNodes(heap, result)) = 2
  /\ heap[first_e].data = 2
  /\ heap[result].data = 4

\* C7: foreach_s with the body that reads the successor, releases the
\* element and returns the successor: invokes the body once per node, in
\* chain order, releases every node once, reads no released node and
\* ends when the body returns NULL.
C7_ForeachSReleasesEachOnce ==
  (op = "foreach_s" /\ body = "read_then_free") =>
    /\ ~uaf
    /\ Len(calls) <= Len(Elems)
    /\ freed = Prefix(Elems, Len(calls))
    /\ \A k \in 1..Len(calls) :
         /\ calls[k].elem = Elems[k]
         /\ calls[k].ret = heap0[Elems[k]].next
         /\ calls[k].ret = NULL => (k = Len(calls) /\ value = NULL)
    /\ \A p \in Nodes :
         heap[p].st = "freed" <=> p \in Range(freed)
    /\ pc = "done" =>
         /\ Len(calls) = Len(Elems)
         /\ \A p \in Nodes : heap[p].st # "live"
         /\ Len(calls) > 0 => calls[Len(calls)].ret = NULL

C7_Witness ==
  /\ op = "foreach_s" /\ body = "read_then_free" /\ pc = "done"
  /\ Len(freed) = 3
  /\ Cardinality(Range(freed)) = 3

\* C8 as claimed: the invocation of a callable after the function that made
\* it returned is detected and classified as a lifecycle error.
C8_EscapeIsDetected ==
  (op = "escape" /\ pc \in {"done", "crashed"}) => outcome = "lifecycle_error"

\* C8 amended: nothing detects it. The invocation is never classified as a
\* lifecycle error: it behaves as an ordinary call, computes garbage or
\* crashes, and a callable invoked while its function runs is an ordinary
\* call.
C8_EscapeIsUndetected ==
  op = "escape" =>
    /\ outcome \in {"none", "ok", "garbage", "crash"}
    /\ \A k \in 1..Len(calls) :
         (k = Len(calls) /\ calls[k].alive) => outcome = "ok"
    /\ pc \in {"done", "crashed"} =>
         /\ calls # <<>>
         /\ ~calls[Len(calls)].alive
         /\ outcome \in {"ok", "garbage", "crash"}
         /\ stored # {}

C8_Witness ==
  /\ op = "escape" /\ pc = "done" /\ outcome = "ok"
  /\ ~calls[Len(calls)].alive
  /\ LiveFrames = {MainFrame}

\* C9: in the five combinators every invocation of a callable happens
\* while the activation the callable is nested in and the variables it
\* refers to are alive, and no callable is kept anywhere.
C9_CallablesInvokedAlive ==
  op \in Combinators =>
    /\ \A k \in 1..Len(calls) : calls[k].alive
    /\ stored = {}
    /\ pc = "done" => (stack = <<>> /\ BlockVars(pc) = {})

C9_Witness ==
  /\ op = "map_s" /\ pc = "done"
  /\ Len(calls) = 6
  /\ \A k \in 1..Len(calls) : calls[k].alive
  /\ calls[6].env \notin LiveFrames
  /\ calls[6].env # calls[5].env

\* C10: map_s descends and then builds: the successor callable is invoked
\* on every element from the head to the tail before the first transform,
\* then the transform on every element from the tail to the head, with NULL
\* as successor for the last element and, for every other element, the node
\* the transform of its successor returned.
C10_MapSDescendsThenBuilds ==
  op = "map_s" =>
    LET n == Len(Elems) IN
    /\ Len(calls) <= 2 * n
    /\ \A k \in 1..Len(calls) :
         IF k <= n
         THEN /\ calls[k].fn = "next"
              /\ calls[k].elem = Elems[k]
         ELSE /\ calls[k].fn = "body"
              /\ calls[k].elem = Elems[2 * n + 1 - k]
              /\ calls[k].succ = IF k = n + 1 THEN NULL ELSE calls[k - 1].ret
    /\ pc = "done" =>
         /\ Len(calls) = 2 * n
         /\ result = IF n = 0 THEN NULL ELSE calls[2 * n].ret

C10_Witness ==
  /\ op = "map_s" /\ pc = "done"
  /\ Len(Elems) = 3
  /\ calls[4].succ = NULL
  /\ calls[6].succ = calls[5].ret
  /\ calls[6].elem = first_e

\* C11: foreach_s reads no field of the current element itself, only the
\* callables do; with the body that releases the element before it reads
\* the successor, every invocation reads a released node, from the first
\* element of any chain that has one, and foreach_s neither prevents the
\* read (the step is taken) nor reports it.
C11_ForeachSUseAfterFree ==
  op = "foreach_s" =>
    /\ Len(derefs) = Len(calls)
    /\ \A k \in 1..Len(derefs) :
         /\ derefs[k].by = "body"
         /\ derefs[k].node = calls[k].elem
    /\ outcome = "none"
    /\ body = "free_then_read" =>
         /\ \A k \in 1..Len(derefs) : derefs[k].st = "freed"
         /\ uaf <=> calls # <<>>
         /\ (pc = "foreach_s_loop" /\ value # NULL) => ENABLED foreach_s_step_uaf
         /\ (pc \in {"done", "crashed"} /\ first_e # NULL) => uaf

C11_Witness ==
  /\ op = "foreach_s" /\ body = "free_then_read" /\ pc = "done"
  /\ Len(Elems) = 3
  /\ Len(calls) = 3
  /\ uaf
  /\ derefs[1].st = "freed"

\* The nodes the transform returned, in the order of the elements they were
\* built for (the transform runs from the tail to the head).
Built == [k \in 1..Len(Elems) |-> calls[2 * Len(Elems) + 1 - k].ret]

C14_DepthIsLength ==
  (op = "map_s" /\ pc = "done") => depth = Len(Elems)

\* C14 amended: it is the length of the chain plus one: one activation per
\* element and the activation that receives NULL, which is entered while
\* all the others wait for their callee; at no time are more active.
C14_DepthIsLengthPlusOne ==
  op = "map_s" =>
    /\ Len(stack) <= Len(Elems) + 1
    /\ depth <= Len(Elems) + 1
    /\ Len(stack) <= depth
    /\ \A k \in 1..Len(stack) : stack[k].fn = "aux"
    /\ \A k \in 1..Len(stack) :
         stack[k].value = IF k <= Len(Elems) THEN Elems[k] ELSE NULL
    /\ pc = "done" => depth = Len(Elems) + 1

C14_Witness ==
  /\ op = "map_s" /\ pc = "map_s_run"
  /\ Len(Elems) = 3
  /\ Len(stack) = 4
  /\ Top.value = NULL
  /\ \A k \in 1..3 : stack[k].pc = "wait"

\* The chain of h from p comes to NULL.
Acyclic(h, p) == Len(ChainNodes(h, p)) <= Cardinality(Nodes)

\* C13: fold_s on a chain that comes to NULL always gets to the NULL test
\* that fails and returns, within two calls per element; on a chain with a
\* cycle value is never NULL once set, fold_s never returns, and nothing is
\* reported. fold_s returns only from the loop test, with value NULL.
C13_FoldSTerminatesIffAcyclic ==
  /\ (op = "fold_s" /\ Acyclic(heap0, first_e)) ~> (pc = "done")
  /\ [](op = "fold_s" /\ Acyclic(heap0, first_e) =>
          /\ Len(calls) <= 2 * Len(Elems)
          /\ Len(calls) < StepCap
          /\ pc = "done" => Len(calls) = 2 * Len(Elems))
  /\ [](op = "fold_s" /\ ~Acyclic(heap0, first_e) =>
          /\ pc \in {"start", "fold_s_body", "fold_s_next"}
          /\ pc # "start" => value \in Range(Elems)
          /\ outcome = "none" /\ ~uaf
          /\ heap = heap0)
  /\ [][(op = "fold_s" /\ pc' = "done") =>
          (pc = "fold_s_body" /\ value = NULL /\ result' = acc)]_vars

\* A chain of three nodes whose last node leads back to the second one, still
\* scanned after more calls than a chain of three takes.
C13_Witness ==
  /\ op = "fold_s" /\ ~Acyclic(heap0, first_e)
  /\ Cardinality(Range(Elems)) = 3
  /\ heap0[heap0[heap0[first_e].next].next].next = heap0[first_e].next
  /\ Len(calls) > 2 * 3
  /\ pc = "fold_s_body" /\ value # NULL

\* A chain of three nodes that ends, scanned to its end.
C13_WitnessAcyclic ==
  /\ op = "fold_s" /\ Acyclic(heap0, first_e) /\ Len(Elems) = 3
  /\ pc = "done" /\ prev.op = "none"
====
